---- MODULE Spec2Model ----
(***************************************************************************)
(* Model of app.py: the ISCO colour assigner generate_isco_grouped_colors  *)
(* and the Dash callbacks that keep the misclassified-jobs list.           *)
(*                                                                         *)
(* A category code is a Python str, modelled as a sequence of one-         *)
(* character strings (<<"1","0">> is "10").  A hue is kept exactly, as the *)
(* numerator of a fraction over HueDen(n) = 15*n, n the number of major    *)
(* groups: i*0.8/n + d*(0.8/n)/12 = (12*i + d) / (15*n).                   *)
(***************************************************************************)
EXTENDS Integers, Sequences, FiniteSets, TLC

(* ------------------------------ bounds -------------------------------- *)
\* longest collection of codes handed to the assigner
MaxLen == 4

(* --------------------------- characters ------------------------------- *)
Digits == <<"0", "1", "2", "3", "4", "5", "6", "7", "8", "9">>

HexDigits == <<"0", "1", "2", "3", "4", "5", "6", "7", "8", "9",
               "a", "b", "c", "d", "e", "f">>

IsDigit(c) == \E i \in 1..Len(Digits) : Digits[i] = c

DigitVal(c) == (CHOOSE i \in 1..Len(Digits) : Digits[i] = c) - 1

\* the code point of a character, the order Python compares str by
CodePoint(c) ==
  CASE c = " " -> 32
    [] c = "+" -> 43
    [] c = "-" -> 45
    [] IsDigit(c) -> 48 + DigitVal(c)
    [] c = "a" -> 97

Range(s) == {s[i] : i \in 1..Len(s)}

RECURSIVE Unique(_)
\* Series.unique(): the distinct values in order of first appearance
Unique(s) ==
  IF Len(s) = 0 THEN <<>>
  ELSE LET u == Unique(SubSeq(s, 1, Len(s) - 1))
       IN  IF s[Len(s)] \in Range(u) THEN u ELSE Append(u, s[Len(s)])

(* ------------------------- int(str), str(int) -------------------------- *)
RECURSIVE LStrip(_)
LStrip(s) == IF Len(s) > 0 /\ s[1] = " " THEN LStrip(Tail(s)) ELSE s

RECURSIVE RStrip(_)
RStrip(s) ==
  IF Len(s) > 0 /\ s[Len(s)] = " " THEN RStrip(SubSeq(s, 1, Len(s) - 1)) ELSE s

Strip(s) == RStrip(LStrip(s))

HasSign(s) == Len(s) > 0 /\ s[1] \in {"+", "-"}

Unsigned(s) == IF HasSign(s) THEN Tail(s) ELSE s

\* int(code) does not raise ValueError: optional blanks, an optional sign,
\* then at least one digit and nothing but digits
IntParses(code) ==
  LET u == Unsigned(Strip(code))
  IN  Len(u) > 0 /\ \A i \in 1..Len(u) : IsDigit(u[i])

RECURSIVE DigitsValue(_)
DigitsValue(u) ==
  IF Len(u) = 0 THEN 0
  ELSE 10 * DigitsValue(SubSeq(u, 1, Len(u) - 1)) + DigitVal(u[Len(u)])

\* int(code), for a code that parses
IntOf(code) ==
  LET t == Strip(code)
      m == DigitsValue(Unsigned(t))
  IN  IF HasSign(t) /\ t[1] = "-" THEN 0 - m ELSE m

RECURSIVE NatStr(_)
NatStr(n) ==
  IF n < 10 THEN <<Digits[n + 1]>> ELSE NatStr(n \div 10) \o <<Digits[(n % 10) + 1]>>

\* str(n)
Str(n) == IF n < 0 THEN <<"-">> \o NatStr(0 - n) ELSE NatStr(n)

(* ------------------------------ sorted() ------------------------------- *)
RECURSIVE LexLess(_, _)
\* a < b for two Python strings
LexLess(a, b) ==
  IF Len(b) = 0 THEN FALSE
  ELSE IF Len(a) = 0 THEN TRUE
  ELSE IF a[1] # b[1] THEN CodePoint(a[1]) < CodePoint(b[1])
  ELSE LexLess(Tail(a), Tail(b))

\* x < y as sorted() compares them: two ints (numeric) or two strs
Less(x, y, numeric) == IF numeric THEN x < y ELSE LexLess(x, y)

RECURSIVE InsertSorted(_, _, _)
InsertSorted(x, s, numeric) ==
  IF Len(s) = 0 THEN <<x>>
  ELSE IF Less(x, s[1], numeric) THEN <<x>> \o s
  ELSE <<s[1]>> \o InsertSorted(x, Tail(s), numeric)

RECURSIVE Sorted(_, _)
\* sorted(s): ascending, stable
Sorted(s, numeric) ==
  IF Len(s) = 0 THEN <<>>
  ELSE InsertSorted(s[Len(s)], Sorted(SubSeq(s, 1, Len(s) - 1), numeric), numeric)

(* ------------------- generate_isco_grouped_colors ---------------------- *)
\* lines 27-37: the codes as the colouring loop sees them.  If every code
\* parses as an int the codes are sorted numerically and written back with
\* str(); if one does not, the whole collection is sorted as strings.
sorted_isco(isco_categories) ==
  IF \A i \in 1..Len(isco_categories) : IntParses(isco_categories[i])
  THEN LET isco_integers ==
             [i \in 1..Len(isco_categories) |-> IntOf(isco_categories[i])]
           sorted_codes == Sorted(isco_integers, TRUE)
       IN  [i \in 1..Len(sorted_codes) |-> Str(sorted_codes[i])]
  ELSE Sorted(isco_categories, FALSE)

RECURSIVE SortedChars(_)
\* sorted(list(S)) for a set S of one-character strings
SortedChars(S) ==
  IF S = {} THEN <<>>
  ELSE LET m == CHOOSE c \in S : \A d \in S : CodePoint(c) <= CodePoint(d)
       IN  <<m>> \o SortedChars(S \ {m})

\* lines 41-46: the first characters of the codes, sorted
major_groups(codes) ==
  SortedChars({codes[i][1] : i \in {j \in 1..Len(codes) : Len(codes[j]) >= 1}})

\* enumerate(major_groups): the index i of a group
GroupIndex(group, groups) == (CHOOSE i \in 1..Len(groups) : groups[i] = group) - 1

\* the denominator of every hue of a call with n major groups
HueDen(n) == 15 * n

\* as major_group_hue, the groups counted from 1
major_group_hue_from_one(group, groups) == 12 * (GroupIndex(group, groups) + 1)

\* line 54: major_group_hue[group] = i * 0.8 / n, as a numerator over HueDen(n)
major_group_hue(group, groups) == 12 * GroupIndex(group, groups)

\* as minor_variation, divided by 6 where the code divides by 12
minor_variation_wide(code) ==
  IF Len(code) >= 2 /\ IsDigit(code[2]) THEN 2 * DigitVal(code[2]) ELSE 0

\* as minor_variation, reading the last character of the code where the
\* code reads the second
minor_variation_last(code) ==
  IF Len(code) >= 2 /\ IsDigit(code[Len(code)]) THEN DigitVal(code[Len(code)]) ELSE 0

\* lines 66-75: minor_digit * (0.8 / n) / 12, as a numerator over HueDen(n);
\* 0 for a one-character code and when int(code[1]) raises ValueError
minor_variation(code) ==
  IF Len(code) >= 2 /\ IsDigit(code[2]) THEN DigitVal(code[2]) ELSE 0

\* line 78: hue = (base_hue + minor_variation) % 1.0
Hue(code, groups) ==
  (major_group_hue(code[1], groups) + minor_variation(code)) % HueDen(Len(groups))

\* as SatVal, the test for an odd group turned round
SatVal_even_dark(major_group) ==
  IF DigitVal(major_group) % 2 = 0 THEN <<85, 90>> ELSE <<75, 95>>

\* lines 82-84: <<saturation, value>> in hundredths, for a digit major group
SatVal(major_group) ==
  IF DigitVal(major_group) % 2 = 1 THEN <<85, 90>> ELSE <<75, 95>>

\* colorsys.hsv_to_rgb(h / den, s / 100, v / 100): <<r, g, b>> as numerators
\* over 10000 * den
hsv_to_rgb(h, den, s, v) ==
  LET i == (6 * h) \div den
      f == (6 * h) % den
      vv == v * 100 * den
      p == v * (100 - s) * den
      q == v * (100 * den - s * f)
      t == v * (100 * den - s * (den - f))
      k == i % 6
  IN  CASE k = 0 -> <<vv, t, p>>
        [] k = 1 -> <<q, vv, p>>
        [] k = 2 -> <<p, vv, t>>
        [] k = 3 -> <<p, q, vv>>
        [] k = 4 -> <<t, p, vv>>
        [] k = 5 -> <<vv, p, q>>

\* int(x * 255) for x = num / den
Channel(num, den) == (255 * num) \div den

RECURSIVE HexStr(_)
HexStr(n) ==
  IF n < 16 THEN <<HexDigits[n + 1]>>
  ELSE HexStr(n \div 16) \o <<HexDigits[(n % 16) + 1]>>

\* f"{n:02x}": lowercase hex, padded with zeros to a width of at least 2
Hex02(n) ==
  IF n < 0 THEN <<"-">> \o (IF 0 - n < 16 THEN <<"0">> ELSE <<>>) \o HexStr(0 - n)
  ELSE (IF n < 16 THEN <<"0">> ELSE <<>>) \o HexStr(n)

\* lines 86-87: the hex colour of a hue and a digit major group
hex_color(hue, den, major_group) ==
  LET sv == SatVal(major_group)
      rgb == hsv_to_rgb(hue, den, sv[1], sv[2])
  IN  <<"#">> \o Hex02(Channel(rgb[1], 10000 * den))
             \o Hex02(Channel(rgb[2], 10000 * den))
             \o Hex02(Channel(rgb[3], 10000 * den))

NoColors == [c \in {} |-> <<>>]

RECURSIVE ColorLoop(_, _, _, _)
\* lines 57-88: the loop over sorted_isco from position k on.  acc.hue holds
\* the hue of line 78 of every code reached, acc.colors the dict; the loop
\* ends at the first code whose int(major_group) raises (line 82).
ColorLoop(codes, k, groups, acc) ==
  IF k > Len(codes) THEN acc
  ELSE LET code == codes[k] IN
       IF Len(code) = 0 THEN ColorLoop(codes, k + 1, groups, acc)
       ELSE LET hue == Hue(code, groups)
                seen == [acc EXCEPT !.hue = (code :> hue) @@ @]
            IN  IF ~IsDigit(code[1]) THEN [seen EXCEPT !.raised = TRUE]
                ELSE ColorLoop(codes, k + 1, groups,
                       [seen EXCEPT !.colors =
                          (code :> hex_color(hue, HueDen(Len(groups)), code[1])) @@ @])

\* lines 39-90, given the codes in loop order
ColorsOf(codes) ==
  ColorLoop(codes, 1, major_groups(codes),
            [raised |-> FALSE, colors |-> NoColors, hue |-> NoColors])

\* as generate_isco_grouped_colors, without the sorting of lines 31, 36 and
\* 46: codes and major groups in the order the collection gives them
generate_unsorted(isco_categories) ==
  ColorLoop(isco_categories, 1,
            Unique([i \in 1..Len(isco_categories) |-> isco_categories[i][1]]),
            [raised |-> FALSE, colors |-> NoColors, hue |-> NoColors])

\* lines 20-90: raised is TRUE when the call ends in ValueError, colors is
\* the returned dict (what was filled in before the error otherwise)
generate_isco_grouped_colors(isco_categories) ==
  ColorsOf(sorted_isco(isco_categories))

(* ------------------------------- state --------------------------------- *)
VARIABLES
  isco_categories,   \* the collection handed to the assigner
  status,            \* of that call: "idle" (not run), "returned", "raised"
  colors,            \* the dict the call built (returned when status = "returned")
  hues,              \* the hue of line 78 of every code the loop reached
  prev,              \* the outcome of the call before this one, or NoCall
  store,             \* misclassified-jobs-store data
  last_clicked_data, \* the module global last_clicked_data
  feedback,          \* misclassified-feedback children
  click_info,        \* click-info children
  table,             \* misclassified-table-container and misclassified-count
  download,          \* what the latest event sent to download-misclassified
  n_clicks,          \* add-misclassified-btn n_clicks
  clickData,         \* scatter clickData: the point clicked last, or NoClick
  event              \* the callback handled last

color_vars == <<isco_categories, status, colors, hues, prev>>

dash_vars ==
  <<store, last_clicked_data, feedback, click_info, table, download, n_clicks,
    clickData, event>>

vars == <<isco_categories, status, colors, hues, prev, store, last_clicked_data,
          feedback, click_info, table, download, n_clicks, clickData, event>>

(* -------------------- the assigner as a state machine ------------------- *)
\* the codes the collections are drawn from
CodeUniverse ==
  { <<"1">>, <<"1", "0">>, <<"1", "9">>, <<"2", "1">>, <<"2", "a">>,
    <<"3", "1">>, <<"0", "1">>, <<"a", "1">>, <<"1", "0", "1">> }

RECURSIVE Listing(_)
\* the codes of S as one collection, largest string first
Listing(S) ==
  IF S = {} THEN <<>>
  ELSE LET m == CHOOSE c \in S : \A d \in S : d = c \/ LexLess(d, c)
       IN  <<m>> \o Listing(S \ {m})

\* the collections a first call is made on: distinct codes, as
\* df['isco2d'].unique() hands them over (line 96)
Inputs ==
  {Listing(S) : S \in {T \in SUBSET CodeUniverse : Cardinality(T) \in 1..MaxLen}}

NoCall == [called |-> FALSE]

\* one call of generate_isco_grouped_colors, on the collection cats
CallWith(cats) ==
  LET res == generate_isco_grouped_colors(cats)
  IN  /\ isco_categories' = cats
      /\ status' = IF res.raised THEN "raised" ELSE "returned"
      /\ colors' = res.colors
      /\ hues' = res.hue

\* the first call
Generate ==
  /\ status = "idle"
  /\ CallWith(isco_categories)
  /\ UNCHANGED prev
  /\ UNCHANGED dash_vars

Outcome ==
  [called |-> TRUE, codes |-> Range(isco_categories), status |-> status,
   colors |-> colors]

\* a second call, with the same codes in another order
Reorder ==
  /\ status # "idle"
  /\ prev = NoCall
  /\ \E p \in Permutations(1..Len(isco_categories)) :
       CallWith([i \in 1..Len(isco_categories) |-> isco_categories[p[i]]])
  /\ prev' = Outcome
  /\ UNCHANGED dash_vars

\* a second call, with the same codes and one of them repeated
Duplicate ==
  /\ status # "idle"
  /\ prev = NoCall
  /\ Len(isco_categories) < MaxLen
  /\ \E i \in 1..Len(isco_categories) :
       CallWith(Append(isco_categories, isco_categories[i]))
  /\ prev' = Outcome
  /\ UNCHANGED dash_vars

(* ------------------------------ the dataset ----------------------------- *)
\* pd.read_parquet(UMAP_PARQUET): coordinates in units of 0.0001.  Rows 1 and
\* 2 agree on code, translated title and coordinates rounded to 3 decimals.
df ==
  << [isco2d |-> <<"2", "1">>, title_en |-> "engineer", title |-> "inzhener",
      x |-> 12342, y |-> 5001],
     [isco2d |-> <<"2", "1">>, title_en |-> "engineer", title |-> "konstruktor",
      x |-> 12344, y |-> 5003],
     [isco2d |-> <<"1", "0", "1">>, title_en |-> "officer", title |-> "ofitser",
      x |-> 0 - 3007, y |-> 815] >>

unique_categories == Unique([i \in 1..Len(df) |-> df[i].isco2d])

\* line 101: the colour map computed once at start-up
color_map == generate_isco_grouped_colors(unique_categories)

\* round(v, 3) of a coordinate in units of 0.0001, in units of 0.001: to the
\* nearest, a tie to the even neighbour
Round3(v) ==
  LET q == v \div 10
      r == v % 10
  IN  IF r < 5 THEN q
      ELSE IF r > 5 THEN q + 1
      ELSE IF q % 2 = 0 THEN q ELSE q + 1

(* --------------------------- category names ----------------------------- *)
isco_submajor_groups ==
     (<<"1", "1">> :> "Chief executives, senior officials and legislators")
  @@ (<<"1", "2">> :> "Administrative and commercial managers")
  @@ (<<"1", "3">> :> "Production and specialized services managers")
  @@ (<<"1", "4">> :> "Hospitality, retail and other services managers")
  @@ (<<"2", "1">> :> "Science and engineering professionals")
  @@ (<<"2", "2">> :> "Health professionals")
  @@ (<<"2", "3">> :> "Teaching professionals")
  @@ (<<"2", "4">> :> "Business and administration professionals")
  @@ (<<"2", "5">> :> "Information and communications technology professionals")
  @@ (<<"2", "6">> :> "Legal, social and cultural professionals")
  @@ (<<"3", "1">> :> "Science and engineering associate professionals")
  @@ (<<"3", "2">> :> "Health associate professionals")
  @@ (<<"3", "3">> :> "Business and administration associate professionals")
  @@ (<<"3", "4">> :> "Legal, social, cultural and related associate professionals")
  @@ (<<"3", "5">> :> "Information and communications technicians")
  @@ (<<"4", "1">> :> "General and keyboard clerks")
  @@ (<<"4", "2">> :> "Customer services clerks")
  @@ (<<"4", "3">> :> "Numerical and material recording clerks")
  @@ (<<"4", "4">> :> "Other clerical support workers")
  @@ (<<"5", "1">> :> "Personal service workers")
  @@ (<<"5", "2">> :> "Sales workers")
  @@ (<<"5", "3">> :> "Personal care workers")
  @@ (<<"5", "4">> :> "Protective services workers")
  @@ (<<"6", "1">> :> "Market-oriented skilled agricultural workers")
  @@ (<<"6", "2">> :> "Market-oriented skilled forestry, fishery and hunting workers")
  @@ (<<"6", "3">> :> "Subsistence farmers, fishers, hunters and gatherers")
  @@ (<<"7", "1">> :> "Building and related trades workers, excluding electricians")
  @@ (<<"7", "2">> :> "Metal, machinery and related trades workers")
  @@ (<<"7", "3">> :> "Handicraft and printing workers")
  @@ (<<"7", "4">> :> "Electrical and electronic trades workers")
  @@ (<<"7", "5">> :> "Food processing, wood working, garment and other craft and related trades workers")
  @@ (<<"8", "1">> :> "Stationary plant and machine operators")
  @@ (<<"8", "2">> :> "Assemblers")
  @@ (<<"8", "3">> :> "Drivers and mobile plant operators")
  @@ (<<"9", "1">> :> "Cleaners and helpers")
  @@ (<<"9", "2">> :> "Agricultural, forestry and fishery labourers")
  @@ (<<"9", "3">> :> "Labourers in mining, construction, manufacturing and transport")
  @@ (<<"9", "4">> :> "Food preparation assistants")
  @@ (<<"9", "5">> :> "Street and related sales and service workers")
  @@ (<<"9", "6">> :> "Refuse workers and other elementary workers")
  @@ (<<"1", "0", "1">> :> "Commissioned armed forces officers")
  @@ (<<"1", "0", "2">> :> "Non-commissioned armed forces officers")
  @@ (<<"1", "0", "3">> :> "Armed forces occupations, other ranks")

isco_major_groups ==
     (<<"1">> :> "Managers")
  @@ (<<"2">> :> "Professionals")
  @@ (<<"3">> :> "Technicians and Associate Professionals")
  @@ (<<"4">> :> "Clerical Support Workers")
  @@ (<<"5">> :> "Service and Sales Workers")
  @@ (<<"6">> :> "Skilled Agricultural, Forestry and Fishery Workers")
  @@ (<<"7">> :> "Craft and Related Trades Workers")
  @@ (<<"8">> :> "Plant and Machine Operators and Assemblers")
  @@ (<<"9">> :> "Elementary Occupations")
  @@ (<<"1", "0">> :> "Armed Forces Occupations")

\* dict.get(key, default)
Get(d, key, default) == IF key \in DOMAIN d THEN d[key] ELSE default

\* lines 533-553: the display name of a code, as the pieces of the string:
\* <<name>> for a code of the table, <<"(In ", group, ")">> for the fallback
\* to the major group, <<>> for the empty string
submajor_group_name(isco2d) ==
  LET exact == Get(isco_submajor_groups, isco2d, "")
  IN  IF exact # "" THEN <<exact>>
      ELSE IF Len(isco2d) >= 1
      THEN LET major_group ==
                 IF isco2d[1] # "1" THEN <<isco2d[1]>>
                 ELSE IF Len(isco2d) >= 2 /\ isco2d[2] = "0" THEN <<"1", "0">>
                 ELSE <<"1">>
           IN  <<"(In ", Get(isco_major_groups, major_group, "Unknown Group"), ")">>
      ELSE <<>>

(* ------------------------------ callbacks ------------------------------- *)
\* most button presses of add-misclassified-btn
MaxClicks == 3

\* latest time datetime.now() shows
MaxTime == 2

Times == 1..MaxTime

\* the points of the figure, as clickData carries them: customdata and x, y
PlotClicks ==
  {[isco2d |-> df[i].isco2d, title_en |-> df[i].title_en, x |-> df[i].x, y |-> df[i].y] :
     i \in 1..Len(df)}

\* click data that matches no row: coordinates that round elsewhere, and a
\* code and title the dataset does not hold
StrayClicks ==
  { [isco2d |-> <<"2", "1">>, title_en |-> "engineer", x |-> 12350, y |-> 5001],
    [isco2d |-> <<"9", "9">>, title_en |-> "cleaner", x |-> 40, y |-> 0 - 26] }

Clicks == PlotClicks \cup StrayClicks

EmptyDict == [k \in {} |-> ""]

NoClick == [k \in {} |-> ""]

NoChildren == [kind |-> "none"]

NoDownload == [sent |-> FALSE]

\* lines 453-456: the indices of the rows a click matches, ascending
matching_rows(pt) ==
  {i \in 1..Len(df) :
     /\ df[i].isco2d = pt.isco2d
     /\ df[i].title_en = pt.title_en
     /\ Round3(df[i].x) = Round3(pt.x)
     /\ Round3(df[i].y) = Round3(pt.y)}

\* as OriginalTitle, taking the last matching row
OriginalTitle_last(pt) ==
  LET m == matching_rows(pt)
  IN  IF Cardinality(m) > 0
      THEN df[CHOOSE i \in m : \A j \in m : i >= j].title
      ELSE "Original title not available"

\* lines 466-480: row['title'] of the first matching row, or the placeholder
OriginalTitle(pt) ==
  LET m == matching_rows(pt)
  IN  IF Cardinality(m) > 0
      THEN df[CHOOSE i \in m : \A j \in m : i <= j].title
      ELSE "Original title not available"

\* lines 459-480, 533-553: last_clicked_data after a click
ClickedData(pt) ==
  [isco2d |-> pt.isco2d, title_en |-> pt.title_en, x |-> pt.x, y |-> pt.y,
   title |-> OriginalTitle(pt),
   submajor_group_name |-> submajor_group_name(pt.isco2d)]

\* lines 557-592: the details panel; the coordinates are shown with 3 decimals
DetailsPanel(pt) ==
  [kind |-> "details", isco2d |-> pt.isco2d,
   submajor_group_name |-> submajor_group_name(pt.isco2d),
   cat_color |-> Get(color_map.colors, pt.isco2d, <<"#", "3", "3", "3", "3", "3", "3">>),
   title |-> OriginalTitle(pt), title_en |-> pt.title_en,
   x |-> Round3(pt.x), y |-> Round3(pt.y)]

\* lines 433-592: display_click(clickData).  Dash calls it when the page
\* loads, with no click data, and then with every click on a point; without
\* click data the global is left alone.
display_click ==
  /\ \/ /\ DOMAIN clickData = {}
        /\ click_info' = [kind |-> "message", text |-> "Click on a dot to see details here."]
        /\ UNCHANGED <<last_clicked_data, clickData>>
     \/ \E pt \in Clicks :
          /\ clickData' = pt
          /\ last_clicked_data' = ClickedData(pt)
          /\ click_info' = DetailsPanel(pt)
  /\ event' = "display_click"
  /\ download' = NoDownload
  /\ UNCHANGED <<store, feedback, table, n_clicks>>
  /\ UNCHANGED color_vars

\* lines 325-333: one row of the table
TableRow(e) ==
  [c \in {"id", "isco2d", "submajor_group_name", "title", "title_en", "timestamp"} |->
     Get(e, c, "")]

\* lines 317-391: update_misclassified_table(data), which Dash calls with
\* every value written to the store
update_misclassified_table(data) ==
  IF Len(data) = 0
  THEN [kind |-> "message", text |-> "No misclassified jobs added yet.",
        count |-> <<"Misclassified Jobs: ", Str(0)>>]
  ELSE [kind |-> "table", rows |-> [i \in 1..Len(data) |-> TableRow(data[i])],
        count |-> <<"Misclassified Jobs: ", Str(Len(data))>>]

\* as AlreadyListed, comparing the coordinates too
AlreadyListed_same_point(current_data, entry) ==
  \E i \in 1..Len(current_data) :
    /\ current_data[i].title_en = entry.title_en
    /\ current_data[i].isco2d = entry.isco2d
    /\ current_data[i].x = entry.x
    /\ current_data[i].y = entry.y

\* lines 293-295: the entry is already in the list
AlreadyListed(current_data, entry) ==
  \E i \in 1..Len(current_data) :
    /\ current_data[i].title_en = entry.title_en
    /\ current_data[i].isco2d = entry.isco2d

\* as MisclassifiedEntry, the id taken from the press count
MisclassifiedEntry_press_id(current_data, now) ==
  ("timestamp" :> now) @@ ("id" :> Str(n_clicks + 1)) @@ last_clicked_data

\* lines 287-289: the entry built from the global, the time and the list
MisclassifiedEntry(current_data, now) ==
  ("timestamp" :> now) @@ ("id" :> Str(Len(current_data) + 1)) @@ last_clicked_data

\* as AddResult, without the test of n_clicks
AddResult_any_count(clicks, current_data, now) ==
  IF DOMAIN last_clicked_data = {} THEN <<current_data, "">>
  ELSE LET misclassified_entry == MisclassifiedEntry(current_data, now)
       IN  IF AlreadyListed(current_data, misclassified_entry)
           THEN <<current_data, "This job is already in the misclassified list!">>
           ELSE <<current_data \o <<misclassified_entry>>,
                  "Added to misclassified jobs list!">>

\* lines 281-307: add_to_misclassified(n_clicks, current_data), as
\* <<the data returned, the feedback returned>>
AddResult(clicks, current_data, now) ==
  IF clicks = 0 \/ DOMAIN last_clicked_data = {} THEN <<current_data, "">>
  ELSE LET misclassified_entry == MisclassifiedEntry(current_data, now)
       IN  IF AlreadyListed(current_data, misclassified_entry)
           THEN <<current_data, "This job is already in the misclassified list!">>
           ELSE <<current_data \o <<misclassified_entry>>,
                  "Added to misclassified jobs list!">>

\* the callback add_to_misclassified: the call Dash makes when the page
\* loads (n_clicks = 0) or a press of the button
add_to_misclassified ==
  /\ \E press \in BOOLEAN :
       /\ IF press THEN n_clicks < MaxClicks ELSE n_clicks = 0
       /\ n_clicks' = IF press THEN n_clicks + 1 ELSE n_clicks
  /\ \E now \in Times :
       LET res == AddResult(n_clicks', store, now)
       IN  /\ store' = res[1]
           /\ feedback' = res[2]
           /\ table' = update_misclassified_table(res[1])
  /\ event' = "add_to_misclassified"
  /\ download' = NoDownload
  /\ UNCHANGED <<last_clicked_data, click_info, clickData>>
  /\ UNCHANGED color_vars

\* DataFrame(data).to_csv(index=False): the header, then one line per entry
CsvColumns ==
  <<"isco2d", "title_en", "x", "y", "title", "submajor_group_name", "timestamp", "id">>

ToCsv(data) ==
  <<CsvColumns>> \o
  [i \in 1..Len(data) |-> [c \in 1..Len(CsvColumns) |-> data[i][CsvColumns[c]]]]

\* as ExportResult, without the test for an empty list
ExportResult_always(data) ==
  [sent |-> TRUE, filename |-> "misclassified_jobs.csv", content |-> ToCsv(data)]

\* lines 400-410: export_misclassified(n_clicks, data)
ExportResult(data) ==
  IF Len(data) = 0 THEN NoDownload
  ELSE [sent |-> TRUE, filename |-> "misclassified_jobs.csv", content |-> ToCsv(data)]

export_misclassified ==
  /\ download' = ExportResult(store)
  /\ event' = "export_misclassified"
  /\ UNCHANGED <<store, last_clicked_data, feedback, click_info, table, n_clicks,
                 clickData>>
  /\ UNCHANGED color_vars

\* lines 421-425: clear_misclassified(n_clicks)
ClearResult == <<<<>>, "Misclassified jobs list cleared!">>

clear_misclassified ==
  /\ store' = ClearResult[1]
  /\ feedback' = ClearResult[2]
  /\ table' = update_misclassified_table(ClearResult[1])
  /\ event' = "clear_misclassified"
  /\ download' = NoDownload
  /\ UNCHANGED <<last_clicked_data, click_info, n_clicks, clickData>>
  /\ UNCHANGED color_vars

\* lines 170-266: the layout as a browser gets it on loading the page
Layout ==
  [store |-> <<>>, feedback |-> "", click_info |-> NoChildren, table |-> NoChildren,
   download |-> NoDownload, n_clicks |-> 0, clickData |-> NoClick]

\* the page is loaded again: the components start over, the module global
\* last_clicked_data of the server process stays
page_load ==
  /\ event # "none"
  /\ store' = Layout.store
  /\ feedback' = Layout.feedback
  /\ click_info' = Layout.click_info
  /\ table' = Layout.table
  /\ download' = Layout.download
  /\ n_clicks' = Layout.n_clicks
  /\ clickData' = Layout.clickData
  /\ event' = "page_load"
  /\ UNCHANGED last_clicked_data
  /\ UNCHANGED color_vars

(* ---------------------------- specifications ---------------------------- *)
\* the page as first loaded, the global of line 427
DashInit ==
  /\ store = Layout.store
  /\ last_clicked_data = EmptyDict
  /\ feedback = Layout.feedback
  /\ click_info = Layout.click_info
  /\ table = Layout.table
  /\ download = Layout.download
  /\ n_clicks = Layout.n_clicks
  /\ clickData = Layout.clickData
  /\ event = "none"

Init ==
  /\ isco_categories = unique_categories
  /\ status = IF color_map.raised THEN "raised" ELSE "returned"
  /\ colors = color_map.colors
  /\ hues = color_map.hue
  /\ prev = NoCall
  /\ DashInit

Next ==
  \/ display_click
  \/ add_to_misclassified
  \/ export_misclassified
  \/ clear_misclassified
  \/ page_load

Spec == Init /\ [][Next]_vars

\* the assigner alone, on every collection of at most MaxLen codes
InitColors ==
  /\ isco_categories \in Inputs
  /\ status = "idle"
  /\ colors = NoColors
  /\ hues = NoColors
  /\ prev = NoCall
  /\ DashInit

NextColors ==
  \/ Generate
  \/ Reorder
  \/ Duplicate

SpecColors == InitColors /\ [][NextColors]_vars

(* ------------------- properties of the colour assigner ------------------ *)
\* the major groups of the call in the state, as line 46 computes them
CallGroups == major_groups(sorted_isco(isco_categories))

AllParse == \A i \in 1..Len(isco_categories) : IntParses(isco_categories[i])

Abs(v) == IF v < 0 THEN 0 - v ELSE v

\* the distance of two hues on the hue circle, both numerators over den
HueDist(h1, h2, den) ==
  IF Abs(h1 - h2) <= den - Abs(h1 - h2) THEN Abs(h1 - h2) ELSE den - Abs(h1 - h2)

\* C1: the keys of the returned mapping are exactly the distinct input
\* codes: none missing, none that was not handed in.
C1_KeysAreInputCodes ==
  status = "returned" => DOMAIN colors = Range(isco_categories)

\* C2: no call ends in an error; a collection with a code that does not
\* parse as an integer is coloured whole, every code of it a key.
C2_NeverRaises ==
  /\ status # "raised"
  /\ (status = "returned" /\ ~AllParse) => Range(isco_categories) \subseteq DOMAIN colors

C5_Deterministic ==
  (prev.called /\ prev.codes = Range(isco_categories)) =>
    /\ status = prev.status
    /\ colors = prev.colors

C5_Witness ==
  /\ prev.called
  /\ status = "returned"
  /\ Cardinality(Range(isco_categories)) >= 3
  /\ Cardinality(Range(CallGroups)) >= 2
  /\ isco_categories # Listing(Range(isco_categories))

HexVal(c) == (CHOOSE i \in 1..Len(HexDigits) : HexDigits[i] = c) - 1

Max3(a, b, c) == IF a >= b /\ a >= c THEN a ELSE IF b >= c THEN b ELSE c

Min3(a, b, c) == IF a <= b /\ a <= c THEN a ELSE IF b <= c THEN b ELSE c

\* C6: every colour is '#' and 6 lowercase hex digits, each channel in
\* 0..255; the largest channel is int(255 * value) and the smallest
\* int(255 * value * (1 - saturation)), with (saturation, value) =
\* (0.85, 0.90) for an odd major-group digit and (0.75, 0.95) for an even one.
C6_HexColors ==
  \A k \in DOMAIN colors :
    LET c == colors[k]
    IN  /\ Len(c) = 7
        /\ c[1] = "#"
        /\ \A i \in 2..7 : c[i] \in Range(HexDigits)
        /\ LET r == 16 * HexVal(c[2]) + HexVal(c[3])
               g == 16 * HexVal(c[4]) + HexVal(c[5])
               b == 16 * HexVal(c[6]) + HexVal(c[7])
               odd == DigitVal(k[1]) % 2 = 1
               s == IF odd THEN 85 ELSE 75
               v == IF odd THEN 90 ELSE 95
           IN  /\ {r, g, b} \subseteq 0..255
               /\ Max3(r, g, b) = (255 * v) \div 100
               /\ Min3(r, g, b) = (255 * v * (100 - s)) \div 10000

C6_Witness ==
  /\ status = "returned"
  /\ \E j \in DOMAIN colors : \E k \in DOMAIN colors :
       DigitVal(j[1]) % 2 = 1 /\ DigitVal(k[1]) % 2 = 0

(* --------------------- properties of the flagged list ------------------- *)
Pair(e) == <<e.title_en, e.isco2d>>

\* C7: no two entries of the flagged list share (translated title, category
\* code), and an add for a pair already in the list gives back the list as
\* it was, with the notice that the job is already in the list.
C7_NoDuplicateFlag ==
  /\ [](\A i \in 1..Len(store) : \A j \in 1..Len(store) :
          Pair(store[i]) = Pair(store[j]) => i = j)
  /\ [][(/\ event' = "add_to_misclassified"
         /\ n_clicks' > 0
         /\ DOMAIN last_clicked_data # {}
         /\ \E i \in 1..Len(store) : Pair(store[i]) = Pair(last_clicked_data))
        => (/\ store' = store
            /\ feedback' = "This job is already in the misclassified list!")]_vars

C7_Witness ==
  /\ event = "add_to_misclassified"
  /\ feedback = "This job is already in the misclassified list!"
  /\ Len(store) >= 1
  /\ \E i \in 1..Len(store) :
       Pair(store[i]) = Pair(last_clicked_data) /\ store[i].x # last_clicked_data.x

\* C8: after a click that matches no row of the dataset (code, translated
\* title, x and y rounded to 3 decimals), the details panel and the stored
\* selection carry "Original title not available" with the code, title and
\* coordinates of the click; after a click that matches rows, they carry
\* the original title of the first such row.
C8_LookupMiss ==
  (event = "display_click" /\ DOMAIN clickData # {}) =>
    \A rows \in {{i \in 1..Len(df) :
                    /\ df[i].isco2d = clickData.isco2d
                    /\ df[i].title_en = clickData.title_en
                    /\ Round3(df[i].x) = Round3(clickData.x)
                    /\ Round3(df[i].y) = Round3(clickData.y)}} :
      \A title \in {IF rows = {} THEN "Original title not available"
                    ELSE df[CHOOSE i \in rows : \A j \in rows : i <= j].title} :
        /\ DOMAIN last_clicked_data # {}
        /\ last_clicked_data.title = title
        /\ last_clicked_data.isco2d = clickData.isco2d
        /\ last_clicked_data.title_en = clickData.title_en
        /\ last_clicked_data.x = clickData.x
        /\ last_clicked_data.y = clickData.y
        /\ click_info.kind = "details"
        /\ click_info.title = title
        /\ click_info.isco2d = clickData.isco2d
        /\ click_info.title_en = clickData.title_en
        /\ click_info.x = Round3(clickData.x)
        /\ click_info.y = Round3(clickData.y)

C8_Witness ==
  /\ event = "display_click"
  /\ DOMAIN clickData # {}
  /\ clickData.isco2d = df[1].isco2d
  /\ clickData.title_en = df[1].title_en
  /\ Round3(clickData.x) # Round3(df[1].x)
  /\ click_info.kind = "details"
  /\ click_info.title = "Original title not available"
  /\ last_clicked_data.title = "Original title not available"

\* C9: on an empty flagged list the export sends no download, the table
\* shows the empty-state message with count 0, and a clear leaves the list
\* empty whatever it held.
C9_EmptyListNoOps ==
  /\ (event = "export_misclassified" /\ Len(store) = 0) => download = NoDownload
  /\ (event = "clear_misclassified") =>
       /\ store = <<>>
       /\ feedback = "Misclassified jobs list cleared!"
  /\ (Len(store) = 0 /\ table.kind # "none") =>
       /\ table.kind = "message"
       /\ table.text = "No misclassified jobs added yet."
       /\ table.count = <<"Misclassified Jobs: ", <<"0">>>>
  /\ (Len(store) > 0) => table.kind = "table" /\ Len(table.rows) = Len(store)

C9_Witness ==
  /\ event = "export_misclassified"
  /\ store = <<>>
  /\ download = NoDownload
  /\ feedback = "Misclassified jobs list cleared!"
  /\ table.kind = "message"
  /\ n_clicks > 0

\* C10: the k-th entry of the flagged list has id k; the list changes only
\* by one entry appended at its end or by being emptied.
C10_SequentialIds ==
  /\ [](\A k \in 1..Len(store) : store[k].id = Str(k))
  /\ [][\/ store' = store
        \/ store' = <<>>
        \/ /\ Len(store') = Len(store) + 1
           /\ SubSeq(store', 1, Len(store)) = store]_vars

C10_Witness ==
  /\ event = "add_to_misclassified"
  /\ feedback = "Added to misclassified jobs list!"
  /\ Len(store) = 2
  /\ n_clicks = 3
  /\ store[2].id = <<"2">>

(* ------------------- what the colour of a code depends on --------------- *)
\* the digit the minor variation of a code is taken from: its second
\* character when that is a digit, 0 for a one-character code and for a
\* second character that is no digit
MinorDigit(code) ==
  IF Len(code) >= 2 /\ code[2] \in Range(Digits)
  THEN (CHOOSE d \in 0..9 : Digits[d + 1] = code[2])
  ELSE 0

SelectionKeys == {"isco2d", "title_en", "x", "y", "title", "submajor_group_name"}

\* e is the stored selection sel with a timestamp and an id added
IsEntryOf(e, sel) ==
  /\ DOMAIN e = DOMAIN sel \cup {"timestamp", "id"}
  /\ \A k \in DOMAIN sel : e[k] = sel[k]

\* C12: add_to_misclassified changes the list only by appending the record
\* of the stored selection, which is that of the latest click that carried
\* click data; with no selection stored or a click count of 0 it gives back
\* the list as it was with empty feedback.  Only a display_click call with
\* click data changes the stored selection: not one without, not a clear,
\* not the add itself.
C12_SelectionSlot ==
  /\ [](DOMAIN last_clicked_data = {} \/ DOMAIN last_clicked_data = SelectionKeys)
  /\ [][/\ (event' = "add_to_misclassified") =>
             /\ last_clicked_data' = last_clicked_data
             /\ \/ store' = store
                \/ /\ Len(store') = Len(store) + 1
                   /\ SubSeq(store', 1, Len(store)) = store
                   /\ IsEntryOf(store'[Len(store')], last_clicked_data)
                   /\ DOMAIN last_clicked_data = SelectionKeys
             /\ (DOMAIN last_clicked_data = {} \/ n_clicks' = 0) =>
                  (store' = store /\ feedback' = "")
        /\ (event' = "clear_misclassified") => last_clicked_data' = last_clicked_data
        /\ (event' = "display_click" /\ DOMAIN clickData' = {}) =>
             last_clicked_data' = last_clicked_data
        /\ (event' = "display_click" /\ DOMAIN clickData' # {}) =>
             /\ DOMAIN last_clicked_data' = SelectionKeys
             /\ last_clicked_data'.isco2d = clickData'.isco2d
             /\ last_clicked_data'.title_en = clickData'.title_en
             /\ last_clicked_data'.x = clickData'.x
             /\ last_clicked_data'.y = clickData'.y]_vars

\* an entry appended from the selection of a click made before the page was
\* loaded again
C12_Witness ==
  /\ event = "add_to_misclassified"
  /\ feedback = "Added to misclassified jobs list!"
  /\ DOMAIN clickData = {}
  /\ Len(store) = 1
  /\ IsEntryOf(store[1], last_clicked_data)
  /\ last_clicked_data.title = "Original title not available"

====
